---- MODULE Spec2Model ----
(***************************************************************************)
(* Model of projeto.py, the Streamlit dashboard of video-game sales.       *)
(*                                                                         *)
(* The script runs top to bottom once per user interaction ("render").     *)
(* What survives between renders is the st.cache_data cache of load_data,  *)
(* st.session_state and the values the widgets hold in the browser.        *)
(*                                                                         *)
(* Texts are sequences of one-character strings; names (platform, genre,   *)
(* publisher, title) are TLA+ strings.  A sales figure is an integer       *)
(* counting thousandths (1.5 is 1500), so sums are exact; the binary       *)
(* rounding of pandas' float64 sums is not modelled.  A missing name is    *)
(* NaN, written "nan"; the records of the model may lack their genre, and  *)
(* what holds of a missing genre holds of a missing platform.              *)
(***************************************************************************)
EXTENDS Integers, Sequences, FiniteSets, TLC

VARIABLES
    env,            \* the dataset source and the release of Streamlit
    cache,          \* st.cache_data entry of load_data()
    fetches,        \* how many times the body of load_data has executed
    call,           \* the latest call of load_data: how it ended, what it showed
    session_state,  \* st.session_state: the three keys the script sets
    widgets,        \* browser side of the slider and the two multiselects
    pc,             \* "start" | "idle" | "rerun": what the session waits for
    view            \* what the latest script run computed and displayed

vars == <<env, cache, fetches, call, session_state, widgets, pc, view>>

----------------------------------------------------------------------------
(* Bounds of the model *)

MaxTextLen == 3     \* longest text tried in a sales field
MaxRows == 2        \* most records in the file of a dashboard run
MaxFetch == 3       \* most executions of the body of load_data

----------------------------------------------------------------------------
(* Generic helpers *)

Range(s) == {s[i] : i \in 1..Len(s)}

RECURSIVE SumSeq(_)
SumSeq(s) == IF s = <<>> THEN 0 ELSE Head(s) + SumSeq(Tail(s))

RECURSIVE Flatten(_)
Flatten(ss) == IF ss = <<>> THEN <<>> ELSE Head(ss) \o Flatten(Tail(ss))

RemoveAt(s, i) == SubSeq(s, 1, i - 1) \o SubSeq(s, i + 1, Len(s))

RECURSIVE TextsUpTo(_, _)
TextsUpTo(alphabet, n) ==
    IF n = 0 THEN {<<>>}
    ELSE TextsUpTo(alphabet, n - 1)
         \cup {Append(t, c) : t \in TextsUpTo(alphabet, n - 1), c \in alphabet}

SeqsUpTo(S, n) == UNION {[1..k -> S] : k \in 0..n}

----------------------------------------------------------------------------
(* Cells of a table.  A cell is missing (pandas NaN) or holds a value:     *)
(* a text, a name or a number.                                             *)

Missing == [na |-> TRUE, v |-> <<>>]
MissingName == [na |-> TRUE, v |-> "nan"]      \* NaN in a column of names
Val(x) == [na |-> FALSE, v |-> x]

Scale == 10 ^ 3                      \* a number n stands for n / Scale

Digits == {"0", "1", "2", "3", "4", "5", "6", "7", "8", "9"}

DigitVal(c) ==
    CASE c = "0" -> 0 [] c = "1" -> 1 [] c = "2" -> 2 [] c = "3" -> 3
      [] c = "4" -> 4 [] c = "5" -> 5 [] c = "6" -> 6 [] c = "7" -> 7
      [] c = "8" -> 8 [] c = "9" -> 9

RECURSIVE IntOfDigits(_)
IntOfDigits(t) ==
    IF t = <<>> THEN 0
    ELSE 10 * IntOfDigits(SubSeq(t, 1, Len(t) - 1)) + DigitVal(t[Len(t)])

RECURSIVE FracOfDigits(_, _)
FracOfDigits(t, unit) ==           \* digits after the point; unit is Scale / 10 first
    IF t = <<>> THEN 0
    ELSE DigitVal(Head(t)) * unit + FracOfDigits(Tail(t), unit \div 10)

(* pandas.read_csv: the texts it reads as missing (its default na_values,  *)
(* those that can be spelled with the characters of the model).            *)
na_values == {<<>>, <<"N", "/", "A">>, <<"N", "A">>, <<"n", "a", "n">>}
na_names == {"", "N/A", "NA", "NaN", "nan", "NULL", "null", "None", "n/a"}

(* Series.astype(str): a missing cell becomes the text "nan" *)
astype_str(cell) == IF cell.na THEN <<"n", "a", "n">> ELSE cell.v

(* the text left as it is: the decimal comma is not replaced *)
str_keep_comma(t) == t

(* Series.str.replace(',', '.', regex=False): every comma becomes a point *)
str_replace_comma(t) == [i \in 1..Len(t) |-> IF t[i] = "," THEN "." ELSE t[i]]

(* pandas.to_numeric(errors='coerce') on one text: an optional sign, then   *)
(* digits with at most one point and at least one digit; any other text     *)
(* (also "nan") is coerced to missing.                                      *)
has_sign(t) == t # <<>> /\ t[1] \in {"-", "+"}
is_negative(t) == t # <<>> /\ t[1] = "-"
unsigned(t) == IF has_sign(t) THEN Tail(t) ELSE t

well_formed(body) ==
    /\ \A i \in 1..Len(body) : body[i] \in Digits \cup {"."}
    /\ Cardinality({i \in 1..Len(body) : body[i] = "."}) <= 1
    /\ \E i \in 1..Len(body) : body[i] \in Digits

point_at(body) ==
    IF \E i \in 1..Len(body) : body[i] = "."
    THEN CHOOSE i \in 1..Len(body) : body[i] = "."
    ELSE Len(body) + 1

split_value(body, at) ==
    IntOfDigits(SubSeq(body, 1, at - 1)) * Scale
    + FracOfDigits(SubSeq(body, at + 1, Len(body)), Scale \div 10)

magnitude(body) == split_value(body, point_at(body))

to_numeric(t) ==
    IF ~well_formed(unsigned(t)) THEN Missing
    ELSE IF is_negative(t) THEN Val(0 - magnitude(unsigned(t)))
    ELSE Val(magnitude(unsigned(t)))

(* int(x) of Series.astype(int) on one text of the Ano column: a run of    *)
(* digits converts; any other text makes astype raise ValueError.          *)
int_convertible(t) == t # <<>> /\ \A i \in 1..Len(t) : t[i] \in Digits

----------------------------------------------------------------------------
(* load_data: the body under @st.cache_data.                               *)
(* A table is [columns: set of headers, rows: sequence of functions from   *)
(* the columns to cells].                                                  *)

genre_translation_map ==
    [g \in {"Action", "Sports", "Platform", "Racing", "Role-Playing", "Misc",
            "Simulation", "Shooter", "Adventure", "Fighting", "Strategy", "Puzzle"} |->
        CASE g = "Action" -> "Ação"           [] g = "Sports" -> "Esportes"
          [] g = "Platform" -> "Plataforma"   [] g = "Racing" -> "Corrida"
          [] g = "Role-Playing" -> "RPG"      [] g = "Misc" -> "Diversos"
          [] g = "Simulation" -> "Simulação"  [] g = "Shooter" -> "Tiro"
          [] g = "Adventure" -> "Aventura"    [] g = "Fighting" -> "Luta"
          [] g = "Strategy" -> "Estratégia"   [] g = "Puzzle" -> "Quebra-cabeça"]

rename_map ==
    [c \in {"Name", "Platform", "Year", "Genre", "Publisher", "NA_Sales",
            "EU_Sales", "JP_Sales", "Other_Sales", "Global_Sales"} |->
        CASE c = "Name" -> "Nome"                [] c = "Platform" -> "Console"
          [] c = "Year" -> "Ano"                 [] c = "Genre" -> "Genero"
          [] c = "Publisher" -> "Editora"        [] c = "NA_Sales" -> "vendas_na"
          [] c = "EU_Sales" -> "vendas_eu"       [] c = "JP_Sales" -> "vendas_jp"
          [] c = "Other_Sales" -> "vendas_outros"
          [] c = "Global_Sales" -> "vendas_globais"]

required_cols_after_rename ==
    {"Ano", "Editora", "Genero", "Console", "vendas_na", "vendas_eu", "vendas_jp",
     "vendas_outros", "vendas_globais", "Nome"}

numerical_cols ==
    {"vendas_na", "vendas_eu", "vendas_jp", "vendas_outros", "vendas_globais"}

(* The headers of the model that carry surrounding blanks, and str.strip() *)
PaddedHeaders == {" Year", "Global_Sales "}
strip(h) ==
    CASE h = " Year" -> "Year" [] h = "Global_Sales " -> "Global_Sales" [] OTHER -> h

TextHeaders == {"Rank", "Year", "NA_Sales", "EU_Sales", "JP_Sales", "Other_Sales",
                "Global_Sales"}

EmptyDataFrame == [columns |-> {}, rows |-> <<>>]        \* pd.DataFrame()

NoException == [type |-> "none", msg |-> {}]
Raise(type, msg) == [exc |-> [type |-> type, msg |-> msg], df |-> EmptyDataFrame]
Returns(df) == [exc |-> NoException, df |-> df]

(* pd.read_csv: the file as a table of cells, missing where the text is one *)
(* of na_values                                                             *)
read_cell(header, x) ==
    IF strip(header) \in TextHeaders
    THEN (IF x \in na_values THEN Missing ELSE Val(x))
    ELSE (IF x \in na_names THEN MissingName ELSE Val(x))

read_csv(file) ==
    [columns |-> file.columns,
     rows |-> [i \in 1..Len(file.rows) |->
                 [c \in file.columns |-> read_cell(c, file.rows[i][c])]]]

(* df.columns = df.columns.str.strip() *)
strip_columns(df) ==
    [columns |-> {strip(c) : c \in df.columns},
     rows |-> [i \in 1..Len(df.rows) |->
                 [c \in {strip(h) : h \in df.columns} |->
                    df.rows[i][CHOOSE h \in df.columns : strip(h) = c]]]]

(* df.rename(columns=rename_map, errors='raise') *)
rename_missing(df) == {c \in DOMAIN rename_map : c \notin df.columns}
renamed(c) == IF c \in DOMAIN rename_map THEN rename_map[c] ELSE c
rename(df) ==
    [columns |-> {renamed(c) : c \in df.columns},
     rows |-> [i \in 1..Len(df.rows) |->
                 [c \in {renamed(h) : h \in df.columns} |->
                    df.rows[i][CHOOSE h \in df.columns : renamed(h) = c]]]]

(* df.dropna(subset=cols) *)
dropna(df, cols) ==
    [columns |-> df.columns,
     rows |-> SelectSeq(df.rows, LAMBDA r : \A c \in cols : ~r[c].na)]

(* df['Ano'].astype(int) *)
ano_convertible(df) == \A i \in 1..Len(df.rows) : int_convertible(df.rows[i]["Ano"].v)
ano_astype_int(df) ==
    [columns |-> df.columns,
     rows |-> [i \in 1..Len(df.rows) |->
        [c \in df.columns |->
            IF c = "Ano" THEN Val(IntOfDigits(df.rows[i][c].v)) ELSE df.rows[i][c]]]]

(* one sales cell: astype(str), str.replace(',', '.'), pd.to_numeric(coerce) *)
coerce_sale(cell) == to_numeric(str_replace_comma(astype_str(cell)))

coerce_numerical(df) ==
    [columns |-> df.columns,
     rows |-> [i \in 1..Len(df.rows) |->
        [c \in df.columns |->
            IF c \in numerical_cols THEN coerce_sale(df.rows[i][c]) ELSE df.rows[i][c]]]]

(* df['Genero'].replace(genre_translation_map) *)
translate_genre(cell) ==
    IF ~cell.na /\ cell.v \in DOMAIN genre_translation_map
    THEN Val(genre_translation_map[cell.v]) ELSE cell
replace_genero(df) ==
    [columns |-> df.columns,
     rows |-> [i \in 1..Len(df.rows) |->
        [c \in df.columns |->
            IF c = "Genero" THEN translate_genre(df.rows[i][c]) ELSE df.rows[i][c]]]]

(* lines 69-80, after the rows without year or publisher were dropped *)
convert_rows(kept) ==
    IF ~ano_convertible(kept) THEN Raise("ValueError", {})
    ELSE Returns(replace_genero(
             dropna(coerce_numerical(ano_astype_int(kept)), numerical_cols)))

(* lines 68-80 *)
normalize_rows(df) == convert_rows(dropna(df, {"Ano", "Editora"}))

(* lines 63-80, on the renamed table *)
check_required(df) ==
    IF required_cols_after_rename \ df.columns # {} THEN Raise("KeyError", {})
    ELSE normalize_rows(df)

(* lines 50-80, on the table with stripped headers *)
rename_and_normalize(stripped) ==
    IF rename_missing(stripped) # {} THEN Raise("KeyError", {})
    ELSE check_required(rename(stripped))

(* lines 44-80: the try block *)
try_block(e) ==
    IF ~e.download_ok THEN Raise(e.download_exc.type, e.download_exc.msg)
    ELSE IF ~e.has_csv THEN Raise("FileNotFoundError", {})
    ELSE rename_and_normalize(strip_columns(read_csv(e.file)))

(* lines 88-93: the st.error chosen by the text of the exception *)
unexpected_message(msg) ==
    IF msg \cap {"AuthenticationError", "kaggle.json"} # {} THEN "auth_error"
    ELSE IF msg \cap {"HTTPError", "DatasetNotFound"} # {} THEN "download_error"
    ELSE "unexpected_error"

(* the except clauses with st.stop() also after a KeyError *)
handle_stops_on_key_error(r) ==
    IF r.exc.type = "none" THEN [exit |-> "return", df |-> r.df, shown |-> "none"]
    ELSE IF r.exc.type = "FileNotFoundError"
    THEN [exit |-> "stop", df |-> EmptyDataFrame, shown |-> "file_not_found"]
    ELSE IF r.exc.type = "KeyError"
    THEN [exit |-> "stop", df |-> EmptyDataFrame, shown |-> "column_error"]
    ELSE [exit |-> "return", df |-> EmptyDataFrame, shown |-> unexpected_message(r.exc.msg)]

(* lines 81-94: the except clauses.  exit is "return" or "stop" (st.stop()  *)
(* raises out of load_data); shown is what st.error displayed.              *)
handle(r) ==
    IF r.exc.type = "none" THEN [exit |-> "return", df |-> r.df, shown |-> "none"]
    ELSE IF r.exc.type = "FileNotFoundError"
    THEN [exit |-> "stop", df |-> EmptyDataFrame, shown |-> "file_not_found"]
    ELSE IF r.exc.type = "KeyError"
    THEN [exit |-> "return", df |-> EmptyDataFrame, shown |-> "column_error"]
    ELSE [exit |-> "return", df |-> EmptyDataFrame, shown |-> unexpected_message(r.exc.msg)]

load_data_body(e) == handle(try_block(e))

----------------------------------------------------------------------------
(* st.cache_data around load_data (line 41): the value a call returned is  *)
(* kept, with the st.error it showed, and replayed by every later call.    *)
(* A call that leaves by an exception (st.stop()) stores nothing.          *)

NoCache == [hit |-> FALSE, df |-> EmptyDataFrame, shown |-> "none"]
NoCall == [kind |-> "none", exit |-> "none", df |-> EmptyDataFrame, shown |-> "none"]

cache_miss(c, n, r) ==
    [cache |-> IF r.exit = "return"
               THEN [hit |-> TRUE, df |-> r.df, shown |-> r.shown] ELSE c,
     fetches |-> n + 1,
     call |-> [kind |-> "miss", exit |-> r.exit, df |-> r.df, shown |-> r.shown]]

load_data(c, n, e) ==
    IF c.hit
    THEN [cache |-> c, fetches |-> n,
          call |-> [kind |-> "hit", exit |-> "return", df |-> c.df, shown |-> c.shown]]
    ELSE cache_miss(c, n, load_data_body(e))

----------------------------------------------------------------------------
(* pandas operations the script applies to the loaded table *)

(* sorted() on names: Python compares strings by code point.  The names of *)
(* the model, in that order; "nan" is NaN, a float, which sorted() cannot  *)
(* compare with a string (TypeError) and which sorts alone.                *)
code_point_order ==
    <<"Action", "Ação", "Indie", "Nintendo", "PS2", "Sega", "Wii", "nan">>

sortable(S) == "nan" \notin S \/ S = {"nan"}
sorted(S) == SelectSeq(code_point_order, LAMBDA x : x \in S)

RECURSIVE sorted_ints(_)
sorted_ints(S) ==
    IF S = {} THEN <<>>
    ELSE <<CHOOSE x \in S : \A y \in S : x <= y>>
         \o sorted_ints(S \ {CHOOSE x \in S : \A y \in S : x <= y})

(* Series.unique() of a column: NaN is one of the values *)
unique(rows, col) == {rows[i][col].v : i \in 1..Len(rows)}

(* the sum of a numeric column; an empty sum is 0 *)
column_sum(rows, metric) == SumSeq([i \in 1..Len(rows) |-> rows[i][metric].v])

(* df.groupby(col): the distinct keys that are not missing (dropna=True),  *)
(* in ascending order                                                      *)
present_keys(rows, col) ==
    {rows[i][col].v : i \in {j \in 1..Len(rows) : ~rows[j][col].na}}

group_keys(rows, col) ==
    IF col = "Ano" THEN sorted_ints(present_keys(rows, col))
    ELSE sorted(present_keys(rows, col))

group_rows(rows, col, key) == SelectSeq(rows, LAMBDA r : ~r[col].na /\ r[col].v = key)

sum_per_key(rows, col, metric, keys) ==
    [k \in 1..Len(keys) |->
        [key |-> keys[k], total |-> column_sum(group_rows(rows, col, keys[k]), metric)]]

(* df.groupby(col)[metric].sum().reset_index() *)
groupby_sum(rows, col, metric) == sum_per_key(rows, col, metric, group_keys(rows, col))

(* nlargest with keep='last': of equal totals the one that appears last *)
last_largest(t) ==
    CHOOSE i \in 1..Len(t) :
        /\ \A j \in 1..Len(t) : t[j].total <= t[i].total
        /\ \A j \in (i + 1)..Len(t) : t[j].total < t[i].total

(* DataFrame.nlargest(n, 'vendas_globais'): the n largest totals in        *)
(* descending order, equal totals in their order of appearance             *)
first_largest(t) ==
    CHOOSE i \in 1..Len(t) :
        /\ \A j \in 1..Len(t) : t[j].total <= t[i].total
        /\ \A j \in 1..(i - 1) : t[j].total < t[i].total

RECURSIVE nlargest(_, _)
take_largest(n, t, best) == <<t[best]>> \o nlargest(n - 1, RemoveAt(t, best))
nlargest(n, t) == IF n = 0 \/ t = <<>> THEN <<>> ELSE take_largest(n, t, first_largest(t))

(* the three predicates of df_filtered (lines 162-164); isin finds NaN in  *)
(* a list that holds NaN                                                   *)
between(r, years) == years[1] <= r["Ano"].v /\ r["Ano"].v <= years[2]
isin(r, col, items) == r[col].v \in Range(items)

(* the mask with | between the platform and the genre predicates *)
filter_rows_either(rows, years, platforms, genres) ==
    SelectSeq(rows, LAMBDA r : /\ between(r, years)
                               /\ (isin(r, "Console", platforms)
                                   \/ isin(r, "Genero", genres)))

filter_rows(rows, years, platforms, genres) ==
    SelectSeq(rows, LAMBDA r : /\ between(r, years)
                               /\ isin(r, "Console", platforms)
                               /\ isin(r, "Genero", genres))

(* float division a / b * 100 of two columns: 0/0 is NaN, x/0 is +-inf;    *)
(* the quotient counts hundredths of one percent                           *)
percentage(a, b) ==
    IF b = 0
    THEN [kind |-> IF a = 0 THEN "nan" ELSE IF a > 0 THEN "inf" ELSE "-inf", v |-> 0]
    ELSE [kind |-> "num", v |-> (a * 100 * 100) \div b]

(* line 571: groupby([col, 'Ano']) sums, one block per category *)
label_sums(cat, sums) ==
    [y \in 1..Len(sums) |->
        [cat |-> cat, Ano |-> sums[y].key, vendas_globais |-> sums[y].total]]

category_year_sums(rows, col, cat) ==
    label_sums(cat, groupby_sum(group_rows(rows, col, cat), "Ano", "vendas_globais"))

sales_by_category_year(rows, col, cats) ==
    Flatten([c \in 1..Len(cats) |-> category_year_sums(rows, col, cats[c])])

(* lines 574-575: pd.merge(..., on='Ano') is an inner join with the totals *)
(* of the years, then the percentage of each row                           *)
total_of_year(total_sales_per_year, ano) ==
    (CHOOSE t \in Range(total_sales_per_year) : t.key = ano).total

share_row(p, Total_Ano) ==
    [cat |-> p.cat, Ano |-> p.Ano, vendas_globais |-> p.vendas_globais,
     Total_Ano |-> Total_Ano,
     Participacao_Mercado |-> percentage(p.vendas_globais, Total_Ano)]

merge_on_ano(by_category_year, total_sales_per_year) ==
    [i \in 1..Len(by_category_year) |->
        share_row(by_category_year[i],
                  total_of_year(total_sales_per_year, by_category_year[i].Ano))]

joinable(by_category_year, total_sales_per_year) ==
    SelectSeq(by_category_year,
              LAMBDA p : \E t \in Range(total_sales_per_year) : t.key = p.Ano)

merge_shares(by_category_year, total_sales_per_year) ==
    merge_on_ano(joinable(by_category_year, total_sales_per_year), total_sales_per_year)

(* lines 567-575: df_market_share for one category column *)
market_share(rows, col) ==
    merge_shares(sales_by_category_year(rows, col, group_keys(rows, col)),
                 groupby_sum(rows, "Ano", "vendas_globais"))

----------------------------------------------------------------------------
(* Widgets.  Streamlit identifies a widget by its parameters, the default   *)
(* value among them: called with the default it was registered with, the    *)
(* widget returns the value the browser holds; called with another default  *)
(* it is a new widget and returns that default.                             *)

NoWidget == [live |-> FALSE, id |-> <<>>, val |-> <<>>]

multiselect_key(session_state_key) ==
    IF session_state_key = "selected_platforms_state"
    THEN "selected_platforms_state_multiselect"
    ELSE "selected_genres_state_multiselect"

WidgetNames == {"slider", "selected_platforms_state_multiselect",
                "selected_genres_state_multiselect"}

widget_call(w, name, default) ==
    IF w[name].live /\ w[name].id = default
    THEN [ret |-> w[name].val, w |-> w]
    ELSE [ret |-> default,
          w |-> [w EXCEPT ![name] = [live |-> TRUE, id |-> default, val |-> default]]]

(* st.session_state[key] = value *)
set_state(ss, key, value) == (key :> value) @@ ss

NoEvent == [kind |-> "none", key |-> "", arg |-> <<>>]
Event(kind, key, arg) == [kind |-> kind, key |-> key, arg |-> arg]

(* what create_multiselect_filter gives: rerun says st.rerun() ended the  *)
(* run, crash that sorted() raised TypeError at line 131                   *)
Selected(rerun, ss, w, selected_items) ==
    [rerun |-> rerun, crash |-> FALSE, ss |-> ss, w |-> w,
     selected_items |-> selected_items]
Crashed(ss, w) ==
    [rerun |-> FALSE, crash |-> TRUE, ss |-> ss, w |-> w, selected_items |-> <<>>]

(* the multiselect without the write-back of lines 150-152 *)
multiselect_without_write_back(key, ss, c) == Selected(FALSE, ss, c.w, c.ret)

(* lines 143-154: the multiselect and the write-back of its value *)
multiselect_result(key, ss, c) ==
    IF c.ret # ss[key]
    THEN Selected(TRUE, set_state(ss, key, c.ret), c.w, c.ret)
    ELSE Selected(FALSE, ss, c.w, c.ret)

(* the clear button emptying both categorical filters *)
filter_buttons_clear_both(all_items, key, ss, w, evt) ==
    IF evt.kind = "clear" /\ evt.key = key
    THEN Selected(TRUE, set_state(set_state(ss, "selected_platforms_state", <<>>),
                                  "selected_genres_state", <<>>), w, <<>>)
    ELSE IF evt.kind = "add_all" /\ evt.key = key
    THEN Selected(TRUE, set_state(ss, key, all_items), w, <<>>)
    ELSE multiselect_result(key, ss, widget_call(w, multiselect_key(key), ss[key]))

(* lines 135-154: the two buttons, then the multiselect *)
filter_buttons(all_items, key, ss, w, evt) ==
    IF evt.kind = "clear" /\ evt.key = key
    THEN Selected(TRUE, set_state(ss, key, <<>>), w, <<>>)
    ELSE IF evt.kind = "add_all" /\ evt.key = key
    THEN Selected(TRUE, set_state(ss, key, all_items), w, <<>>)
    ELSE multiselect_result(key, ss, widget_call(w, multiselect_key(key), ss[key]))

(* lines 132-154 *)
filter_with_items(all_items, key, ss, w, evt) ==
    filter_buttons(all_items, key,
                   IF key \notin DOMAIN ss THEN set_state(ss, key, all_items) ELSE ss,
                   w, evt)

(* lines 126-154 *)
create_multiselect_filter(rows, column_name, session_state_key, ss, w, evt) ==
    IF ~sortable(unique(rows, column_name)) THEN Crashed(ss, w)
    ELSE filter_with_items(sorted(unique(rows, column_name)), session_state_key,
                           ss, w, evt)

----------------------------------------------------------------------------
(* One run of the script.  filter_state is st.session_state as line 161    *)
(* meets it.  stage tells where the run ended:                             *)
(*   "load_stop"     st.stop() inside load_data (line 83)                  *)
(*   "empty"         df.empty, st.stop() at line 100                       *)
(*   "rerun_filter"  st.rerun() inside create_multiselect_filter           *)
(*   "no_data"       df_filtered.empty: st.warning, st.stop() (line 169)   *)
(*   "rerun_peak"    st.rerun() of a peak-year button (line 443)           *)
(*   "rerun_remove"  st.rerun() of remove_peak_filter (line 472)           *)
(*   "slider_error"  st.sidebar.slider raised (line 117)                   *)
(*   "sort_error"    sorted() raised TypeError (line 131)                  *)
(*   "done"          the end of the script                                 *)

BlankView ==
    [stage |-> "none", evt |-> NoEvent, min_year |-> 0, max_year |-> 0,
     sales_by_year_sum |-> <<>>, top_3_years |-> <<>>, selected_years |-> <<>>, selected_platforms |-> <<>>,
     selected_genres |-> <<>>, filtered |-> FALSE, filter_state |-> <<>>,
     df_filtered |-> <<>>,
     warning |-> FALSE, aggregated |-> FALSE, total_sales |-> 0,
     sales_by_genre |-> <<>>, sales_by_platform |-> <<>>, sales_by_publisher |-> <<>>,
     peak_panel |-> FALSE, peak_panel_year |-> 0,
     market_share |-> FALSE, df_market_share_Genero |-> <<>>,
     df_market_share_Console |-> <<>>]

RerunStages == {"rerun_filter", "rerun_peak", "rerun_remove"}

Outcome(ss, w, v) == [ss |-> ss, w |-> w, view |-> v]

(* lines 552-575: the market share, for either choice of the               *)
(* market_share_category radio; then the script runs to its end            *)
rest_of_script(r) ==
    IF r.view.stage \in RerunStages THEN r
    ELSE Outcome(r.ss, r.w, [r.view EXCEPT
             !.stage = "done", !.market_share = TRUE,
             !.df_market_share_Genero = market_share(r.view.df_filtered, "Genero"),
             !.df_market_share_Console = market_share(r.view.df_filtered, "Console")])

(* remove_peak_filter going back to the range the slider held *)
peak_panel_keeps_range(v, ss, w, evt) ==
    IF evt.kind = "remove_peak_filter"
    THEN Outcome(set_state(ss, "selected_years_peak", v.selected_years), w,
                 [v EXCEPT !.stage = "rerun_remove"])
    ELSE Outcome(ss, w, v)

(* lines 447-472: the peak-year panel with its remove_peak_filter button *)
peak_panel(v, ss, w, evt) ==
    IF evt.kind = "remove_peak_filter"
    THEN Outcome(set_state(ss, "selected_years_peak", <<v.min_year, v.max_year>>), w,
                 [v EXCEPT !.stage = "rerun_remove"])
    ELSE Outcome(ss, w, v)

(* a peak-year button that sets the range from the peak year to the year   *)
(* after it                                                                *)
peak_section_next_year(v, ss, w, evt) ==
    IF evt.kind = "peak_year"
    THEN Outcome(set_state(ss, "selected_years_peak", <<evt.arg, evt.arg + 1>>), w,
                 [v EXCEPT !.stage = "rerun_peak"])
    ELSE IF ss["selected_years_peak"] # <<v.min_year, v.max_year>>
    THEN peak_panel([v EXCEPT !.peak_panel = TRUE,
                              !.peak_panel_year = ss["selected_years_peak"][1]],
                    ss, w, evt)
    ELSE Outcome(ss, w, v)

(* lines 438-472: the peak-year buttons, then the panel *)
peak_section(v, ss, w, evt) ==
    IF evt.kind = "peak_year"
    THEN Outcome(set_state(ss, "selected_years_peak", <<evt.arg, evt.arg>>), w,
                 [v EXCEPT !.stage = "rerun_peak"])
    ELSE IF ss["selected_years_peak"] # <<v.min_year, v.max_year>>
    THEN peak_panel([v EXCEPT !.peak_panel = TRUE,
                              !.peak_panel_year = ss["selected_years_peak"][1]],
                    ss, w, evt)
    ELSE Outcome(ss, w, v)

(* lines 175, 195, 220, 271: the total and the category totals (the        *)
(* groupby sums, before sort_values and head)                              *)
aggregate(v) ==
    [v EXCEPT !.aggregated = TRUE,
              !.total_sales = column_sum(v.df_filtered, "vendas_globais"),
              !.sales_by_genre = groupby_sum(v.df_filtered, "Genero", "vendas_globais"),
              !.sales_by_platform = groupby_sum(v.df_filtered, "Console", "vendas_globais"),
              !.sales_by_publisher = groupby_sum(v.df_filtered, "Editora", "vendas_globais")]

(* the script without the stop of lines 167-169 *)
after_filter_without_stop(v, ss, w, evt) ==
    rest_of_script(peak_section(aggregate(v), ss, w, evt))

(* lines 167-169, and the rest of the script *)
after_filter(v, ss, w, evt) ==
    IF v.df_filtered = <<>>
    THEN Outcome(ss, w, [v EXCEPT !.stage = "no_data", !.warning = TRUE])
    ELSE rest_of_script(peak_section(aggregate(v), ss, w, evt))

(* lines 161-165: df_filtered *)
from_filter(v, rows, ss, w, evt) ==
    after_filter([v EXCEPT !.filtered = TRUE, !.filter_state = ss,
                           !.df_filtered = filter_rows(rows, v.selected_years,
                                               v.selected_platforms, v.selected_genres)],
                 ss, w, evt)

(* line 158 *)
after_genres(v, rows, g, evt) ==
    IF g.crash THEN Outcome(g.ss, g.w, [v EXCEPT !.stage = "sort_error"])
    ELSE IF g.rerun THEN Outcome(g.ss, g.w, [v EXCEPT !.stage = "rerun_filter"])
    ELSE from_filter([v EXCEPT !.selected_genres = g.selected_items], rows, g.ss, g.w, evt)

(* line 157 *)
after_platforms(v, rows, p, evt) ==
    IF p.crash THEN Outcome(p.ss, p.w, [v EXCEPT !.stage = "sort_error"])
    ELSE IF p.rerun THEN Outcome(p.ss, p.w, [v EXCEPT !.stage = "rerun_filter"])
    ELSE after_genres([v EXCEPT !.selected_platforms = p.selected_items], rows,
                      create_multiselect_filter(rows, "Genero", "selected_genres_state",
                                                p.ss, p.w, evt),
                      evt)

(* the slider without the write-back of lines 123-124 *)
after_slider_without_write_back(v, rows, ss, sl, evt) ==
    after_platforms([v EXCEPT !.selected_years = sl.ret], rows,
                    create_multiselect_filter(rows, "Console", "selected_platforms_state",
                                              ss, sl.w, evt),
                    evt)

(* lines 123-124: the value of the slider is written back *)
after_slider(v, rows, ss, sl, evt) ==
    after_platforms([v EXCEPT !.selected_years = sl.ret], rows,
                    create_multiselect_filter(
                        rows, "Console", "selected_platforms_state",
                        IF sl.ret # ss["selected_years_peak"]
                        THEN set_state(ss, "selected_years_peak", sl.ret) ELSE ss,
                        sl.w, evt),
                    evt)

(* lines 117-121: the slider.  Releases of Streamlit differ on a slider    *)
(* whose min_value equals its max_value: some draw it, the others raise    *)
(* StreamlitAPIException; e.slider_accepts_equal_bounds says which one     *)
(* runs the script.                                                        *)
slider(v, rows, e, ss, w, evt) ==
    IF v.min_year = v.max_year /\ ~e.slider_accepts_equal_bounds
    THEN Outcome(ss, w, [v EXCEPT !.stage = "slider_error"])
    ELSE after_slider(v, rows, ss,
                      widget_call(w, "slider", ss["selected_years_peak"]), evt)

(* lines 113-114 *)
init_years(v, rows, e, ss, w, evt) ==
    slider(v, rows, e,
           IF "selected_years_peak" \notin DOMAIN ss
           THEN set_state(ss, "selected_years_peak", <<v.min_year, v.max_year>>) ELSE ss,
           w, evt)

(* lines 103-110 *)
min_year(rows) == CHOOSE y \in unique(rows, "Ano") : \A z \in unique(rows, "Ano") : y <= z
max_year(rows) == CHOOSE y \in unique(rows, "Ano") : \A z \in unique(rows, "Ano") : z <= y
sales_by_year_sum(rows) == groupby_sum(rows, "Ano", "vendas_globais")
top_3_years(rows) == nlargest(3, sales_by_year_sum(rows))

(* lines 103-692, on a table with rows *)
script(rows, e, ss, w, evt) ==
    init_years([BlankView EXCEPT !.evt = evt, !.min_year = min_year(rows),
                                 !.max_year = max_year(rows),
                                 !.sales_by_year_sum = sales_by_year_sum(rows),
                                 !.top_3_years = top_3_years(rows)],
               rows, e, ss, w, evt)

(* lines 96-100: the call of load_data and the stop on an empty table *)
after_load(L, e, ss, w, evt) ==
    IF L.call.exit = "stop"
    THEN Outcome(ss, w, [BlankView EXCEPT !.stage = "load_stop", !.evt = evt])
    ELSE IF L.call.df.rows = <<>>
    THEN Outcome(ss, w, [BlankView EXCEPT !.stage = "empty", !.evt = evt])
    ELSE script(L.call.df.rows, e, ss, w, evt)

with_load(L, r) == [load |-> L, ss |-> r.ss, w |-> r.w, view |-> r.view]
run_loaded(L, e, ss, w, evt) == with_load(L, after_load(L, e, ss, w, evt))

(* the whole run *)
run(c, n, e, ss, w, evt) == run_loaded(load_data(c, n, e), e, ss, w, evt)

----------------------------------------------------------------------------
(* The environment of the process: what kagglehub.dataset_download and    *)
(* pd.read_csv meet, and the release of Streamlit that runs the script     *)

AllHeaders == {"Rank"} \cup DOMAIN rename_map

Record(name, platform, year, genre, publisher, na, eu, jp, other, global) ==
    [h \in AllHeaders |->
        CASE h = "Rank" -> <<"1">>       [] h = "Name" -> name
          [] h = "Platform" -> platform  [] h = "Year" -> year
          [] h = "Genre" -> genre        [] h = "Publisher" -> publisher
          [] h = "NA_Sales" -> na        [] h = "EU_Sales" -> eu
          [] h = "JP_Sales" -> jp        [] h = "Other_Sales" -> other
          [] h = "Global_Sales" -> global]

(* vgsales.csv with the given headers; a header with blanks holds the      *)
(* column of the header without them                                       *)
csv_file(columns, records) ==
    [columns |-> columns,
     rows |-> [i \in 1..Len(records) |-> [c \in columns |-> records[i][strip(c)]]]]

NoFile == [columns |-> {}, rows |-> <<>>]

Source(file) ==
    [download_ok |-> TRUE, download_exc |-> NoException, has_csv |-> TRUE, file |-> file,
     slider_accepts_equal_bounds |-> FALSE]
DownloadFails(msg) ==
    [download_ok |-> FALSE, download_exc |-> [type |-> "Exception", msg |-> msg],
     has_csv |-> FALSE, file |-> NoFile, slider_accepts_equal_bounds |-> FALSE]
CsvAbsent ==
    [download_ok |-> TRUE, download_exc |-> NoException, has_csv |-> FALSE, file |-> NoFile,
     slider_accepts_equal_bounds |-> FALSE]
Lenient(e) == [e EXCEPT !.slider_accepts_equal_bounds = TRUE]


Y2000 == <<"2", "0", "0", "0">>
Y2001 == <<"2", "0", "0", "1">>
OnePointFive == <<"1", ",", "5">>
Zero == <<"0">>
Two == <<"2">>

GoodRecord ==
    Record("Game", "PS2", Y2000, "Action", "Nintendo", OnePointFive, Zero, Zero, Zero,
           OnePointFive)

(* the records of the dashboard runs: GoodRecord, one that differs from it *)
(* in every field, and these two with another genre, no genre, no sales    *)
OtherRecord ==
    Record("Game", "Wii", Y2001, "Indie", "Sega", Two, Zero, Zero, Zero, Two)

RenderRecords ==
    {GoodRecord, OtherRecord,
     [GoodRecord EXCEPT !["Genre"] = "Indie"],
     [GoodRecord EXCEPT !["Genre"] = ""],
     [OtherRecord EXCEPT !["Genre"] = ""],
     [GoodRecord EXCEPT !["Global_Sales"] = Zero]}

RenderFiles == SeqsUpTo(RenderRecords, MaxRows)
one_year(rs) == \A i, j \in 1..Len(rs) : rs[i]["Year"] = rs[j]["Year"]

(* either release of Streamlit where the records are of one year: the      *)
(* release makes no difference to the others                               *)
RenderSources ==
    {DownloadFails({"HTTPError"}), CsvAbsent,
     Source(csv_file(AllHeaders \ {"Genre"}, <<GoodRecord>>))}
    \cup {Source(csv_file(AllHeaders, rs)) : rs \in RenderFiles}
    \cup {Lenient(Source(csv_file(AllHeaders, rs))) :
             rs \in {f \in RenderFiles : f # <<>> /\ one_year(f)}}

(* the sources of the calls of load_data alone *)
DownloadMessages ==
    {{"AuthenticationError"}, {"kaggle.json"}, {"HTTPError"}, {"DatasetNotFound"},
     {}, {"kaggle.json", "HTTPError"}}

(* header sets: complete, one header absent, one header with blanks *)
HeaderSets ==
    {AllHeaders} \cup {AllHeaders \ {h} : h \in AllHeaders}
    \cup {(AllHeaders \ {strip(h)}) \cup {h} : h \in PaddedHeaders}

SalesHeaders == {"NA_Sales", "EU_Sales", "JP_Sales", "Other_Sales", "Global_Sales"}
SalesAlphabet == {"1", "5", ",", ".", "-", "N"}
SalesTexts ==
    TextsUpTo(SalesAlphabet, MaxTextLen)
    \cup {<<"N", "/", "A">>, <<"n", "a", "n">>, <<"-", "1", ",", "5">>}
YearTexts == {Y2000, <<"a", "b", "c">>, <<>>}
PublisherNames == {"Nintendo", "N/A"}

(* a record with any text in one sales field, any year text, any publisher *)
ProbeRecords ==
    {[GoodRecord EXCEPT ![h] = t, !["Year"] = y, !["Publisher"] = p] :
        h \in SalesHeaders, t \in SalesTexts, y \in YearTexts, p \in PublisherNames}

(* what may follow the probed record in the file *)
Companions ==
    {<<>>, <<GoodRecord>>, <<[GoodRecord EXCEPT !["Year"] = <<"a", "b", "c">>]>>}

LoadSources ==
    {DownloadFails(m) : m \in DownloadMessages} \cup {CsvAbsent}
    \cup {Source(csv_file(hs, <<GoodRecord>>)) : hs \in HeaderSets}
    \cup {Source(csv_file(AllHeaders, <<r>> \o c)) : r \in ProbeRecords, c \in Companions}

----------------------------------------------------------------------------
(* The dashboard: renders of one server process *)

NoSessionState == <<>>
NoWidgets == [n \in WidgetNames |-> NoWidget]

InitSession ==
    /\ cache = NoCache
    /\ fetches = 0
    /\ call = NoCall
    /\ session_state = NoSessionState
    /\ widgets = NoWidgets
    /\ pc = "start"
    /\ view = BlankView

Init ==
    /\ env \in RenderSources
    /\ InitSession

Render(evt, w) ==
    /\ cache.hit \/ fetches < MaxFetch
    /\ \E r \in {run(cache, fetches, env, session_state, w, evt)} :
           /\ cache' = r.load.cache
           /\ fetches' = r.load.fetches
           /\ call' = r.load.call
           /\ session_state' = r.ss
           /\ widgets' = r.w
           /\ view' = r.view
           /\ pc' = IF r.view.stage \in RerunStages THEN "rerun" ELSE "idle"
    /\ UNCHANGED env

(* the widgets on the page after the last run: after the TypeError of     *)
(* sorted(), the slider, and the platform filter when the genres raised it *)
SidebarShown == pc = "idle" /\ view.stage \in {"no_data", "done"}
SliderShown == pc = "idle" /\ view.stage \in {"no_data", "done", "sort_error"}
FilterShown(key) ==
    \/ SidebarShown
    \/ /\ pc = "idle" /\ view.stage = "sort_error"
       /\ key = "selected_platforms_state"
       /\ key \in DOMAIN session_state
PageShown == pc = "idle" /\ view.stage = "done"

FilterKeys == {"selected_platforms_state", "selected_genres_state"}
column_of(key) == IF key = "selected_platforms_state" THEN "Console" ELSE "Genero"

FirstRender ==
    /\ pc = "start"
    /\ Render(NoEvent, widgets)

Rerun ==
    /\ pc = "rerun"
    /\ Render(NoEvent, widgets)

SliderMove(lo, hi) ==
    /\ SliderShown
    /\ view.min_year <= lo /\ lo <= hi /\ hi <= view.max_year
    /\ <<lo, hi>> # widgets["slider"].val
    /\ Render(Event("slider", "", <<lo, hi>>),
              [widgets EXCEPT !["slider"].val = <<lo, hi>>])

ClearClick(key) ==
    /\ FilterShown(key)
    /\ Render(Event("clear", key, <<>>), widgets)

AddAllClick(key) ==
    /\ FilterShown(key)
    /\ Render(Event("add_all", key, <<>>), widgets)

(* the user adds one option to a multiselect, or removes one *)
MultiselectChange(key) ==
    /\ FilterShown(key)
    /\ LET name == multiselect_key(key)
           val == widgets[name].val
           options == unique(call.df.rows, column_of(key))
       IN  \E items \in {Append(val, x) : x \in options \ Range(val)}
                        \cup {SelectSeq(val, LAMBDA z : z # x) : x \in Range(val)} :
              Render(Event("multiselect", key, items),
                     [widgets EXCEPT ![name].val = items])

PeakYearClick(y) ==
    /\ PageShown
    /\ \E i \in 1..Len(view.top_3_years) : view.top_3_years[i].key = y
    /\ Render(Event("peak_year", "", y), widgets)

RemovePeakFilterClick ==
    /\ PageShown
    /\ view.peak_panel
    /\ Render(Event("remove_peak_filter", "", <<>>), widgets)

(* any other widget of the page (radio, selectbox, ...) *)
OtherInteraction ==
    /\ PageShown
    /\ Render(Event("other", "", <<>>), widgets)

(* the browser reloads the page: a new session of the same process *)
NewSession ==
    /\ pc = "idle"
    /\ session_state' = NoSessionState
    /\ widgets' = NoWidgets
    /\ view' = BlankView
    /\ pc' = "start"
    /\ UNCHANGED <<env, cache, fetches, call>>

ModelYears == 2000..2003

Next ==
    \/ FirstRender
    \/ Rerun
    \/ \E lo, hi \in ModelYears : SliderMove(lo, hi)
    \/ \E key \in FilterKeys : ClearClick(key)
    \/ \E key \in FilterKeys : AddAllClick(key)
    \/ \E key \in FilterKeys : MultiselectChange(key)
    \/ \E y \in ModelYears : PeakYearClick(y)
    \/ RemovePeakFilterClick
    \/ OtherInteraction
    \/ NewSession

Spec == Init /\ [][Next]_vars

----------------------------------------------------------------------------
(* load_data alone, on every source of LoadSources: line 96 of each render *)

InitLoad ==
    /\ env \in LoadSources
    /\ InitSession

CallLoadData ==
    /\ cache.hit \/ fetches < MaxFetch
    /\ \E L \in {load_data(cache, fetches, env)} :
           /\ cache' = L.cache
           /\ fetches' = L.fetches
           /\ call' = L.call
    /\ UNCHANGED <<env, session_state, widgets, pc, view>>

NextLoad == CallLoadData

SpecLoad == InitLoad /\ [][NextLoad]_vars

----------------------------------------------------------------------------
(* The peak years: runs on tables of up to MaxPeakRows rows over four      *)
(* years, of one platform and one genre, so that a fourth year is left     *)
(* out of the three and totals are equal between years                     *)

MaxPeakRows == 4

(* the (Year, Global_Sales) texts of the records: 2000 with 1, 2 or 3,     *)
(* 2001 with 1 or 2, 2002 and 2003 with 2                                  *)
PeakRecords ==
    {[GoodRecord EXCEPT !["Year"] = y[1], !["Global_Sales"] = y[2]] :
        y \in {<<Y2000, <<"1">>>>, <<Y2000, Two>>, <<Y2000, <<"3">>>>,
               <<Y2001, <<"1">>>>, <<Y2001, Two>>,
               <<<<"2", "0", "0", "2">>, Two>>, <<<<"2", "0", "0", "3">>, Two>>}}

PeakFiles == SeqsUpTo(PeakRecords, MaxPeakRows) \ {<<>>}

PeakSources ==
    {Source(csv_file(AllHeaders, rs)) : rs \in PeakFiles}
    \cup {Lenient(Source(csv_file(AllHeaders, rs))) : rs \in {f \in PeakFiles : one_year(f)}}

InitPeak ==
    /\ env \in PeakSources
    /\ InitSession

NextPeak ==
    \/ FirstRender
    \/ Rerun
    \/ ClearClick("selected_platforms_state")

SpecPeak == InitPeak /\ [][NextPeak]_vars

----------------------------------------------------------------------------
(* The year range: every interaction, on a table of three years and on a   *)
(* table of four, whose year 2002 is not among the three peak years        *)

YearFiles ==
    {<<GoodRecord, OtherRecord,
       [GoodRecord EXCEPT !["Year"] = <<"2", "0", "0", "2">>, !["Global_Sales"] = <<"1">>]>>
        \o tail : tail \in {<<>>, <<[OtherRecord EXCEPT !["Year"] = <<"2", "0", "0", "3">>,
                                                       !["Global_Sales"] = <<"3">>]>>}}

InitYears ==
    /\ env \in {Source(csv_file(AllHeaders, rs)) : rs \in YearFiles}
    /\ InitSession

SpecYears == InitYears /\ [][Next]_vars

----------------------------------------------------------------------------
(* Properties of load_data, checked under SpecLoad *)

Failed == call.kind = "miss" /\ try_block(env).exc.type # "none"

(* C1: every failure of load_data (file absent, column missing,            *)
(* authentication, download, any other error) shows a diagnostic and makes *)
(* load_data return the empty DataFrame, with no other kind of exit.       *)
C1_FailureReturnsEmpty ==
    Failed => /\ call.shown # "none"
              /\ call.exit = "return"
              /\ call.df = EmptyDataFrame

(* the headers of the file, blanks stripped, and the text of a field *)
Headers == {strip(c) : c \in env.file.columns}
raw(i, h) == env.file.rows[i][CHOOSE c \in env.file.columns : strip(c) = h]
FileRead == call.kind = "miss" /\ env.download_ok /\ env.has_csv

(* C3: a file that lacks one of the ten source columns makes load_data     *)
(* return the empty DataFrame: no table with some columns renamed.         *)
C3_MissingColumnYieldsEmpty ==
    (FileRead /\ DOMAIN rename_map \ Headers # {})
        => /\ call.exit = "return"
           /\ call.df = EmptyDataFrame
           /\ call.shown = "column_error"

C3_Witness ==
    /\ FileRead
    /\ DOMAIN rename_map \ Headers = {"Genre"}
    /\ Len(env.file.rows) = 1
    /\ call.df = EmptyDataFrame

(* C4: in every table load_data returns, each of the five sales fields of  *)
(* every row is >= 0.                                                      *)
C4_SalesNonNegative ==
    (call.kind # "none" /\ call.exit = "return")
        => \A i \in 1..Len(call.df.rows) : \A c \in numerical_cols :
               ~call.df.rows[i][c].na /\ call.df.rows[i][c].v >= 0

(* The number a sales text denotes when a comma is read as the decimal     *)
(* point; missing when it denotes none.                                    *)
decimal_point(t) == [i \in 1..Len(t) |-> IF t[i] = "," THEN "." ELSE t[i]]
number_of(t) == to_numeric(decimal_point(t))

Complete == FileRead /\ DOMAIN rename_map \subseteq Headers
Present(i) == raw(i, "Year") \notin na_values /\ raw(i, "Publisher") \notin na_names
SalesConvert(i) == \A h \in SalesHeaders : ~number_of(raw(i, h)).na

(* the rows whose year, publisher and five sales fields are present and    *)
(* convertible, in the order of the file                                   *)
ConvertibleRows ==
    sorted_ints({i \in 1..Len(env.file.rows) :
                    Present(i) /\ int_convertible(raw(i, "Year")) /\ SalesConvert(i)})

(* the table returned holds the rows idx and no other, each sales field    *)
(* the number its text denotes                                             *)
Normalized(idx) ==
    /\ call.exit = "return"
    /\ Len(call.df.rows) = Len(idx)
    /\ \A k \in 1..Len(idx) : \A h \in SalesHeaders :
           call.df.rows[k][rename_map[h]] = number_of(raw(idx[k], h))

YearsConvert ==
    \A i \in 1..Len(env.file.rows) : Present(i) => int_convertible(raw(i, "Year"))

----------------------------------------------------------------------------
(* Properties of the dashboard, checked under Spec *)

(* C2: over all the renders of one process the body of load_data runs at   *)
(* most once, whether it succeeded or failed.                              *)
C2_FetchAtMostOnce == fetches <= 1

TotalOf(groups) == SumSeq([k \in 1..Len(groups) |-> groups[k].total])
GlobalSales(rows) == SumSeq([i \in 1..Len(rows) |-> rows[i]["vendas_globais"].v])

Shares == Range(view.df_market_share_Genero) \cup Range(view.df_market_share_Console)

(* C7: no row of df_market_share belongs to a year whose total is zero,    *)
(* and none has an undefined percentage.                                   *)
C7_NoUndefinedShare ==
    view.market_share
        => \A s \in Shares : s.Total_Ano # 0 /\ s.Participacao_Mercado.kind = "num"

by_years(rows, years) == SelectSeq(rows, LAMBDA r : between(r, years))
by_platforms(rows, platforms) == SelectSeq(rows, LAMBDA r : isin(r, "Console", platforms))
by_genres(rows, genres) == SelectSeq(rows, LAMBDA r : isin(r, "Genero", genres))

(* C8: df_filtered is what the three predicates give applied one after the *)
(* other in any order, and filtering it again by the same state changes    *)
(* nothing; two renders with the same filter state show the same rows.     *)
C8_FilterCommutesAndIdempotent ==
    view.filtered
        => /\ view.df_filtered = by_genres(by_platforms(by_years(call.df.rows,
                  view.selected_years), view.selected_platforms), view.selected_genres)
           /\ view.df_filtered = by_platforms(by_genres(by_years(call.df.rows,
                  view.selected_years), view.selected_genres), view.selected_platforms)
           /\ view.df_filtered = by_genres(by_years(by_platforms(call.df.rows,
                  view.selected_platforms), view.selected_years), view.selected_genres)
           /\ view.df_filtered = by_years(by_genres(by_platforms(call.df.rows,
                  view.selected_platforms), view.selected_genres), view.selected_years)
           /\ view.df_filtered = by_platforms(by_years(by_genres(call.df.rows,
                  view.selected_genres), view.selected_years), view.selected_platforms)
           /\ view.df_filtered = by_years(by_platforms(by_genres(call.df.rows,
                  view.selected_genres), view.selected_platforms), view.selected_years)
           /\ view.df_filtered = filter_rows(view.df_filtered, view.selected_years,
                                     view.selected_platforms, view.selected_genres)

C8_Witness ==
    /\ view.filtered
    /\ Len(call.df.rows) = 2
    /\ Len(view.df_filtered) = 1
    /\ Len(by_platforms(call.df.rows, view.selected_platforms)) = 2
    /\ Len(by_genres(call.df.rows, view.selected_genres)) = 1

years_of(ss) == ss["selected_years_peak"]
full_range(v) == <<v.min_year, v.max_year>>

(* C9: a peak-year button of year y sets the year range to (y, y), and the *)
(* rerun shows that range; remove_peak_filter sets it to                   *)
(* (min_year, max_year), and the rerun shows the full range.               *)
C9_PeakThenRestore ==
    [][ /\ view'.stage = "rerun_peak"
            => years_of(session_state') = <<view'.evt.arg, view'.evt.arg>>
        /\ (pc = "rerun" /\ view.stage = "rerun_peak")
            => /\ years_of(session_state') = <<view.evt.arg, view.evt.arg>>
               /\ view'.selected_years = <<view.evt.arg, view.evt.arg>>
        /\ view'.stage = "rerun_remove"
            => years_of(session_state') = full_range(view')
        /\ (pc = "rerun" /\ view.stage = "rerun_remove")
            => /\ years_of(session_state') = full_range(view')
               /\ view'.selected_years = full_range(view')
      ]_vars

(* remove_peak_filter clicked while the range was one peak year *)
C9_Witness ==
    /\ pc = "rerun" /\ view.stage = "rerun_remove"
    /\ view.min_year # view.max_year
    /\ view.selected_years = <<view.peak_panel_year, view.peak_panel_year>>
    /\ \E i \in 1..Len(view.top_3_years) : view.top_3_years[i].key = view.peak_panel_year
    /\ years_of(session_state) = full_range(view)

YearActions == {"slider", "peak_year", "remove_peak_filter"}
CategoryActions == {"clear", "add_all", "multiselect"}
other_key(key) ==
    IF key = "selected_platforms_state" THEN "selected_genres_state"
    ELSE "selected_platforms_state"

(* the value session_state holds under key is as it was *)
Kept(key) ==
    key \in DOMAIN session_state
        => key \in DOMAIN session_state' /\ session_state'[key] = session_state[key]

(* C10: an action on the year range (slider, peak-year button,             *)
(* remove_peak_filter) leaves the selected platforms and genres as they    *)
(* were; an action on one categorical filter (clear, add all, a change of  *)
(* the multiselect) leaves the year range and the other categorical filter *)
(* as they were; and the rerun an action asks for changes none of them.    *)
C10_OtherDimensionsKept ==
    [][ /\ view'.evt.kind \in YearActions
            => /\ Kept("selected_platforms_state")
               /\ Kept("selected_genres_state")
               /\ view'.selected_platforms = view.selected_platforms
               /\ view'.selected_genres = view.selected_genres
        /\ view'.evt.kind \in CategoryActions
            => /\ Kept("selected_years_peak")
               /\ Kept(other_key(view'.evt.key))
               /\ view'.selected_years = view.selected_years
        /\ pc = "rerun"
            => /\ Kept("selected_years_peak")
               /\ Kept("selected_platforms_state")
               /\ Kept("selected_genres_state")
      ]_vars

C10_Witness ==
    /\ view.evt.kind = "slider"
    /\ view.stage = "done"
    /\ view.selected_years # full_range(view)
    /\ Len(view.selected_platforms) = 1
    /\ Cardinality(unique(call.df.rows, "Console")) = 2
    /\ Len(view.selected_genres) = 1
    /\ Cardinality(unique(call.df.rows, "Genero")) = 2

----------------------------------------------------------------------------
(* The categorical filters *)

base_values(key) == {call.df.rows[i][column_of(key)].v : i \in 1..Len(call.df.rows)}
no_duplicates(items) == Cardinality(Range(items)) = Len(items)

(* C11: in the run of a click on "clear" the persisted selection of that   *)
(* filter is empty; in the run of a click on "select all" it holds every   *)
(* distinct value of the column in the whole table, once each; in the run  *)
(* of a change of the multiselect it is the chosen items; and the rerun    *)
(* that follows keeps it and filters with it.                              *)
C11_FilterActionsSetSelection ==
    [][ \A key \in FilterKeys :
          /\ (view'.evt.kind = "clear" /\ view'.evt.key = key)
                => session_state'[key] = <<>>
          /\ (view'.evt.kind = "add_all" /\ view'.evt.key = key)
                => /\ Range(session_state'[key]) = base_values(key)'
                   /\ no_duplicates(session_state'[key])
          /\ (view'.evt.kind = "multiselect" /\ view'.evt.key = key)
                => session_state'[key] = view'.evt.arg
          /\ (pc = "rerun" /\ view.stage = "rerun_filter"
                                /\ key \in DOMAIN session_state)
                => /\ key \in DOMAIN session_state'
                   /\ session_state'[key] = session_state[key]
                   /\ view'.filtered =>
                         /\ view'.selected_platforms
                               = session_state'["selected_platforms_state"]
                         /\ view'.selected_genres
                               = session_state'["selected_genres_state"]
      ]_vars

(* "select all" on the platforms while the years hide one of the two *)
C11_Witness ==
    /\ pc = "rerun"
    /\ view.evt.kind = "add_all" /\ view.evt.key = "selected_platforms_state"
    /\ Len(session_state["selected_platforms_state"]) = 2
    /\ years_of(session_state) = <<2000, 2000>>

----------------------------------------------------------------------------
(* The empty filtered table *)

(* C12: a run whose df_filtered is empty shows the warning and stops with  *)
(* no total, no category totals, no peak panel and no market share; the    *)
(* sidebar stays in use over the cached table (the slider and the buttons  *)
(* of both filters take the next interaction), and a run whose df_filtered *)
(* has rows computes them all and shows no warning.                        *)
C12_EmptyViewWarnsAndStops ==
    /\ (view.filtered /\ view.df_filtered = <<>>)
          => /\ view.stage = "no_data" /\ view.warning /\ pc = "idle"
             /\ ~view.aggregated /\ ~view.peak_panel /\ ~view.market_share
             /\ \A key \in FilterKeys : FilterShown(key)
             /\ SliderShown /\ cache.hit
    /\ (view.filtered /\ view.df_filtered # <<>>)
          => /\ view.aggregated /\ ~view.warning
             /\ view.stage \in {"done", "rerun_peak", "rerun_remove"}

(* the rerun after "clear" on the platforms *)
C12_Witness ==
    /\ pc = "idle" /\ view.stage = "no_data" /\ view.evt.kind = "none"
    /\ session_state["selected_platforms_state"] = <<>>
    /\ Len(call.df.rows) = 2

----------------------------------------------------------------------------
(* The peak years *)

base_years == {call.df.rows[i]["Ano"].v : i \in 1..Len(call.df.rows)}

RECURSIVE year_total_upto(_, _)
year_total_upto(y, n) ==
    IF n = 0 THEN 0
    ELSE year_total_upto(y, n - 1)
         + (IF call.df.rows[n]["Ano"].v = y THEN call.df.rows[n]["vendas_globais"].v
            ELSE 0)
year_total(y) == year_total_upto(y, Len(call.df.rows))

(* year a is ahead of year b: a larger total, or the same total and the    *)
(* earlier year                                                            *)
ahead(a, b) ==
    \/ year_total(a) > year_total(b)
    \/ year_total(a) = year_total(b) /\ a < b

year_and_sales == [i \in 1..Len(call.df.rows) |->
                      <<call.df.rows[i]["Ano"].v, call.df.rows[i]["vendas_globais"].v>>]

computed(v) == v.stage \notin {"none", "load_stop", "empty"}

is_year_trend(T) ==
    /\ Len(T) = Cardinality(base_years)
    /\ \A i \in 1..Len(T) : T[i].key \in base_years /\ T[i].total = year_total(T[i].key)
    /\ \A i, j \in 1..Len(T) : i < j => T[i].key < T[j].key

are_peak_years(P) ==
    /\ Len(P) = IF Cardinality(base_years) < 3 THEN Cardinality(base_years) ELSE 3
    /\ \A i \in 1..Len(P) : P[i].key \in base_years /\ P[i].total = year_total(P[i].key)
    /\ \A i, j \in 1..Len(P) : i < j => ahead(P[i].key, P[j].key)
    /\ \A y \in base_years \ {P[i].key : i \in 1..Len(P)} :
          \A i \in 1..Len(P) : ahead(P[i].key, y)

(* C13: in every run that gets past the load, whatever the filters hold,   *)
(* sales_by_year_sum is the total of vendas_globais of each year of the    *)
(* whole table in ascending years, and top_3_years is its three years      *)
(* (all of them when there are fewer) that are ahead of every other one,   *)
(* in that order, a year being ahead by its larger total or, at the same   *)
(* total, by being the earlier; no run of the process changes them; and    *)
(* the rows (2000, 1.0), (2000, 3.0), (2001, 2.0) give the trend           *)
(* [(2000, 4.0), (2001, 2.0)] and the first peak year 2000.                *)
C13_PeakYearsOfFullTable ==
    [][ /\ computed(view') =>
              /\ is_year_trend(view.sales_by_year_sum)'
              /\ are_peak_years(view.top_3_years)'
              /\ year_and_sales' = <<<<2000, 1 * Scale>>, <<2000, 3 * Scale>>,
                                     <<2001, 2 * Scale>>>>
                    => /\ view'.sales_by_year_sum
                            = <<[key |-> 2000, total |-> 4 * Scale],
                                [key |-> 2001, total |-> 2 * Scale]>>
                       /\ view'.top_3_years[1].key = 2000
        /\ (computed(view) /\ computed(view')) =>
              /\ view'.top_3_years = view.top_3_years
              /\ view'.sales_by_year_sum = view.sales_by_year_sum
      ]_vars

(* four years, the last two peak years with the total of the year left    *)
(* out, in a run with no platform selected                                *)
C13_Witness ==
    /\ view.stage = "no_data" /\ session_state["selected_platforms_state"] = <<>>
    /\ Cardinality(base_years) = 4
    /\ Len(view.top_3_years) = 3
    /\ view.top_3_years[2].total = view.top_3_years[3].total
    /\ \E y \in base_years :
          /\ \A i \in 1..3 : view.top_3_years[i].key # y
          /\ year_total(y) = view.top_3_years[3].total

----------------------------------------------------------------------------
(* The peak-year panel *)

peak_year_keys(v) == {v.top_3_years[i].key : i \in 1..Len(v.top_3_years)}

(* C14: whenever the peak-year panel is displayed, the year range of the   *)
(* run is (y, y) for one of the top_3_years y, and the year the panel      *)
(* names is that y.                                                        *)
C14_PanelOnlyForPeakYear ==
    view.peak_panel =>
        \E y \in peak_year_keys(view) :
            /\ view.selected_years = <<y, y>>
            /\ view.peak_panel_year = y

----------------------------------------------------------------------------
(* st.session_state and the values of the filter *)

(* C15: in every run that reaches df_filtered (line 161), st.session_state *)
(* holds there the year range of the between predicate and the lists of    *)
(* the two isin predicates; and when the run ends with no button of the    *)
(* peak years clicked, st.session_state is still what line 161 met.        *)
C15_StateAgreesWithFilter ==
    view.filtered =>
        /\ years_of(view.filter_state) = view.selected_years
        /\ view.filter_state["selected_platforms_state"] = view.selected_platforms
        /\ view.filter_state["selected_genres_state"] = view.selected_genres
        /\ view.stage \in {"no_data", "done"} => session_state = view.filter_state

(* a slider move to one year, with one platform taken out of the selection *)
C15_Witness ==
    /\ view.filtered /\ view.evt.kind = "slider"
    /\ view.selected_years = <<2001, 2001>>
    /\ Len(view.selected_platforms) = 1
    /\ Cardinality(unique(call.df.rows, "Console")) = 2

----------------------------------------------------------------------------
(* The persisted year range *)

smallest_year == CHOOSE y \in base_years : \A z \in base_years : y <= z
largest_year == CHOOSE y \in base_years : \A z \in base_years : z <= y

(* C16: whenever st.session_state holds selected_years_peak, its range     *)
(* (lo, hi) lies within the years of the table: smallest year <= lo <= hi  *)
(* <= largest year.                                                        *)
C16_YearRangeWithinTable ==
    "selected_years_peak" \in DOMAIN session_state =>
        /\ smallest_year <= years_of(session_state)[1]
        /\ years_of(session_state)[1] <= years_of(session_state)[2]
        /\ years_of(session_state)[2] <= largest_year

(* the range put back by remove_peak_filter after a peak year that lies    *)
(* strictly inside the years of the table                                  *)
C16_Witness ==
    /\ view.stage = "rerun_remove"
    /\ smallest_year < view.selected_years[1]
    /\ view.selected_years[1] = view.selected_years[2]
    /\ view.selected_years[2] < largest_year
    /\ years_of(session_state) = <<smallest_year, largest_year>>

=============================================================================
